---- MODULE Spec2Model ----
(***************************************************************************)
(* A model of the LRU cache of package lru (cache.go) on top of its        *)
(* doubly-linked list (list.go).  The list is modelled at the level of     *)
(* its nodes: a heap of ListItem records linked by Next / Prev addresses,  *)
(* and a list header (len, front, back).  The cache pairs the list with a  *)
(* map from keys to node addresses.                                        *)
(***************************************************************************)
EXTENDS Integers, Sequences, FiniteSets, TLC

(***************************************************************************)
(* Bounds of the model.                                                    *)
(***************************************************************************)
MaxCap == 3             \* largest capacity handed to NewCache
NumKeys == 4            \* keys are 1..NumKeys (A = 1, B = 2, C = 3, D = 4)

MaxNodes == MaxCap + 2  \* addresses available to the allocator

Keys == 1..NumKeys
ValuesOf(k) == {k, k + NumKeys}   \* the values a client stores under key k
CapArgs == -1..MaxCap             \* the capacities handed to NewCache
Addr == 1..MaxNodes

NULL == 0               \* the nil *ListItem
ZeroVal == 0            \* var zeroVal V
Nil == [nil |-> TRUE]   \* the nil Cache returned by NewCache

VARIABLES
  arg,      \* the capacity NewCache was called with
  cache,    \* Nil, or the lruCache: [capacity, queue, items]
  heap,     \* the live ListItems: address -> [Value, Next, Prev]
  ret,      \* the last completed call and what it returned
  ref,      \* history: the reference LRU sequence, most recent first
  hist,     \* history: per key, "never" | "live" | "evicted" | "cleared"
  pre,      \* history: before the last call, the called key's hist and the size
  mu,       \* threads: the cache's sync.Mutex, TRUE when locked
  th,       \* threads: per thread, its call in progress and where it stands
  seq,      \* threads: the calls run one after the other in lock order
  lst,      \* list client: the header of a list used on its own
  lret,     \* list client: the last list call and what it returned
  held      \* list client: the items outside the list it still refers to

vars == <<arg, cache, heap, ret, ref, hist, pre, mu, th, seq, lst, lret, held>>

Range(f) == {f[x] : x \in DOMAIN f}

(***************************************************************************)
(* list.go                                                                 *)
(***************************************************************************)

\* type ListItem struct { Value; Next; Prev }, as allocated by &ListItem{Value: v}
ListItem(v) == [Value |-> v, Next |-> NULL, Prev |-> NULL]

\* NewList: new(list), the zero list header
NewList == [len |-> 0, front |-> NULL, back |-> NULL]

\* The result of a list operation: the heap, the header, and whether the
\* operation dereferenced nil (a Go panic; h and l hold the writes made
\* before it).
Ok(h, l) == [h |-> h, l |-> l, panic |-> FALSE]
Panic(h, l) == [h |-> h, l |-> l, panic |-> TRUE]

Len_(l) == l.len
Front(l) == l.front
Back(l) == l.back

\* pushFrontLogic without its closing l.front.Prev = nil.
pushFrontLogic_KeepsPrev(h, l, i) ==
  LET fin(h1, l1) == Ok(h1, [l1 EXCEPT !.len = @ + 1])
  IN CASE l.len = 0 ->
            LET l1 == [l EXCEPT !.front = i, !.back = i]
            IN IF i = NULL THEN Panic(h, l1)
               ELSE fin([h EXCEPT ![i].Next = NULL], l1)
       [] l.len = 1 ->
            LET l1 == [l EXCEPT !.front = i]
            IN IF i = NULL THEN Panic(h, l1)
               ELSE LET h1 == [h EXCEPT ![i].Next = l.back]
                    IN IF l.back = NULL THEN Panic(h1, l1)
                       ELSE fin([h1 EXCEPT ![l.back].Prev = i], l1)
       [] OTHER ->
            IF l.front = NULL THEN Panic(h, l)
            ELSE LET h1 == [h EXCEPT ![l.front].Prev = i]
                 IN IF i = NULL THEN Panic(h1, l)
                    ELSE fin([h1 EXCEPT ![i].Next = l.front], [l EXCEPT !.front = i])

\* pushFrontLogic whose default case does not make i the front.
pushFrontLogic_FrontNotUpdated(h, l, i) ==
  LET fin(h1, l1) ==
        IF l1.front = NULL THEN Panic(h1, l1)
        ELSE Ok([h1 EXCEPT ![l1.front].Prev = NULL], [l1 EXCEPT !.len = @ + 1])
  IN CASE l.len = 0 ->
            LET l1 == [l EXCEPT !.front = i, !.back = i]
            IN IF i = NULL THEN Panic(h, l1)
               ELSE fin([h EXCEPT ![i].Next = NULL], l1)
       [] l.len = 1 ->
            LET l1 == [l EXCEPT !.front = i]
            IN IF i = NULL THEN Panic(h, l1)
               ELSE LET h1 == [h EXCEPT ![i].Next = l.back]
                    IN IF l.back = NULL THEN Panic(h1, l1)
                       ELSE fin([h1 EXCEPT ![l.back].Prev = i], l1)
       [] OTHER ->
            IF l.front = NULL THEN Panic(h, l)
            ELSE LET h1 == [h EXCEPT ![l.front].Prev = i]
                 IN IF i = NULL THEN Panic(h1, l)
                    ELSE fin([h1 EXCEPT ![i].Next = l.front], l)

\* pushFrontLogic whose empty-list case does not clear i.Next.
pushFrontLogic_KeepsNext(h, l, i) ==
  LET fin(h1, l1) ==
        IF l1.front = NULL THEN Panic(h1, l1)
        ELSE Ok([h1 EXCEPT ![l1.front].Prev = NULL], [l1 EXCEPT !.len = @ + 1])
  IN CASE l.len = 0 ->
            LET l1 == [l EXCEPT !.front = i, !.back = i]
            IN IF i = NULL THEN Panic(h, l1) ELSE fin(h, l1)
       [] l.len = 1 ->
            LET l1 == [l EXCEPT !.front = i]
            IN IF i = NULL THEN Panic(h, l1)
               ELSE LET h1 == [h EXCEPT ![i].Next = l.back]
                    IN IF l.back = NULL THEN Panic(h1, l1)
                       ELSE fin([h1 EXCEPT ![l.back].Prev = i], l1)
       [] OTHER ->
            IF l.front = NULL THEN Panic(h, l)
            ELSE LET h1 == [h EXCEPT ![l.front].Prev = i]
                 IN IF i = NULL THEN Panic(h1, l)
                    ELSE fin([h1 EXCEPT ![i].Next = l.front], [l EXCEPT !.front = i])

\* pushFrontLogic(i): link node i as the new front; three cases on l.len.
pushFrontLogic(h, l, i) ==
  LET fin(h1, l1) ==      \* l.front.Prev = nil; l.len++
        IF l1.front = NULL THEN Panic(h1, l1)
        ELSE Ok([h1 EXCEPT ![l1.front].Prev = NULL], [l1 EXCEPT !.len = @ + 1])
  IN CASE l.len = 0 ->
            LET l1 == [l EXCEPT !.front = i, !.back = i]
            IN IF i = NULL THEN Panic(h, l1)
               ELSE fin([h EXCEPT ![i].Next = NULL], l1)
       [] l.len = 1 ->
            LET l1 == [l EXCEPT !.front = i]
            IN IF i = NULL THEN Panic(h, l1)
               ELSE LET h1 == [h EXCEPT ![i].Next = l.back]
                    IN IF l.back = NULL THEN Panic(h1, l1)
                       ELSE fin([h1 EXCEPT ![l.back].Prev = i], l1)
       [] OTHER ->
            IF l.front = NULL THEN Panic(h, l)
            ELSE LET h1 == [h EXCEPT ![l.front].Prev = i]
                 IN IF i = NULL THEN Panic(h1, l)
                    ELSE fin([h1 EXCEPT ![i].Next = l.front], [l EXCEPT !.front = i])

\* The allocator: a fresh address for &ListItem{...}.
NewAddr(h) == CHOOSE a \in Addr : a \notin DOMAIN h /\ \A b \in Addr : b < a => b \in DOMAIN h

Alloc(h, v) == [a \in DOMAIN h \cup {NewAddr(h)} |-> IF a \in DOMAIN h THEN h[a] ELSE ListItem(v)]

\* PushFront(v): returns the item created for v (field item).
PushFront(h, l, v) ==
  LET newItem == NewAddr(h)
      r == pushFrontLogic(Alloc(h, v), l, newItem)
  IN [h |-> r.h, l |-> r.l, panic |-> r.panic, item |-> newItem]

\* PushBack whose one-item case does not link the old item to the new one.
PushBack_NoLink(h, l, v) ==
  LET newItem == NewAddr(h)
      h0 == Alloc(h, v)
      inc(l1) == [l1 EXCEPT !.len = @ + 1]
      r == CASE l.len = 0 -> Ok(h0, inc([l EXCEPT !.front = newItem, !.back = newItem]))
             [] l.len = 1 ->
                  Ok([h0 EXCEPT ![newItem].Prev = l.front], inc([l EXCEPT !.back = newItem]))
             [] OTHER ->
                  IF l.back = NULL THEN Panic(h0, l)
                  ELSE Ok([[h0 EXCEPT ![l.back].Next = newItem]
                                EXCEPT ![newItem].Prev = l.back],
                          inc([l EXCEPT !.back = newItem]))
  IN [h |-> r.h, l |-> r.l, panic |-> r.panic, item |-> newItem]

\* PushBack(v): returns the item created for v (field item).
PushBack(h, l, v) ==
  LET newItem == NewAddr(h)
      h0 == Alloc(h, v)
      inc(l1) == [l1 EXCEPT !.len = @ + 1]
      r == CASE l.len = 0 -> Ok(h0, inc([l EXCEPT !.front = newItem, !.back = newItem]))
             [] l.len = 1 ->
                  LET l1 == [l EXCEPT !.back = newItem]
                      h1 == [h0 EXCEPT ![newItem].Prev = l.front]
                  IN IF l.front = NULL THEN Panic(h1, l1)
                     ELSE Ok([h1 EXCEPT ![l.front].Next = newItem], inc(l1))
             [] OTHER ->
                  IF l.back = NULL THEN Panic(h0, l)
                  ELSE Ok([[h0 EXCEPT ![l.back].Next = newItem]
                                EXCEPT ![newItem].Prev = l.back],
                          inc([l EXCEPT !.back = newItem]))
  IN [h |-> r.h, l |-> r.l, panic |-> r.panic, item |-> newItem]

\* Remove whose interior case leaves the successor's Prev link untouched.
Remove_StalePrev(h, l, elem) ==
  LET dec(l1) == [l1 EXCEPT !.len = @ - 1]
  IN CASE l.len = 0 -> Ok(h, l)
       [] l.len = 1 -> Ok(h, dec([l EXCEPT !.front = NULL, !.back = NULL]))
       [] OTHER ->
            IF elem = l.front THEN
              Ok([h EXCEPT ![h[elem].Next].Prev = NULL], dec([l EXCEPT !.front = h[elem].Next]))
            ELSE IF elem = l.back THEN
              Ok([h EXCEPT ![h[elem].Prev].Next = NULL], dec([l EXCEPT !.back = h[elem].Prev]))
            ELSE
              Ok([h EXCEPT ![h[elem].Prev].Next = h[elem].Next], dec(l))

\* Remove whose back case leaves the new back's Next link untouched.
Remove_BackKeepsNext(h, l, elem) ==
  LET dec(l1) == [l1 EXCEPT !.len = @ - 1]
  IN CASE l.len = 0 -> Ok(h, l)
       [] l.len = 1 -> Ok(h, dec([l EXCEPT !.front = NULL, !.back = NULL]))
       [] OTHER ->
            IF elem = l.front THEN
              Ok([h EXCEPT ![h[elem].Next].Prev = NULL], dec([l EXCEPT !.front = h[elem].Next]))
            ELSE IF elem = l.back THEN
              Ok(h, dec([l EXCEPT !.back = h[elem].Prev]))
            ELSE
              Ok([[h EXCEPT ![h[elem].Prev].Next = h[elem].Next]
                       EXCEPT ![h[elem].Next].Prev = h[elem].Prev], dec(l))

\* Remove whose empty-list case falls through to l.len--.
Remove_EmptyDecrements(h, l, elem) ==
  LET dec(l1) == [l1 EXCEPT !.len = @ - 1]
  IN CASE l.len = 0 -> Ok(h, dec(l))
       [] l.len = 1 -> Ok(h, dec([l EXCEPT !.front = NULL, !.back = NULL]))
       [] OTHER ->
            IF elem = l.front THEN
              IF elem = NULL THEN Panic(h, l)
              ELSE LET l1 == [l EXCEPT !.front = h[elem].Next]
                   IN IF l1.front = NULL THEN Panic(h, l1)
                      ELSE Ok([h EXCEPT ![l1.front].Prev = NULL], dec(l1))
            ELSE IF elem = l.back THEN
              IF elem = NULL THEN Panic(h, l)
              ELSE LET l1 == [l EXCEPT !.back = h[elem].Prev]
                   IN IF l1.back = NULL THEN Panic(h, l1)
                      ELSE Ok([h EXCEPT ![l1.back].Next = NULL], dec(l1))
            ELSE
              IF elem = NULL \/ h[elem].Prev = NULL THEN Panic(h, l)
              ELSE LET h1 == [h EXCEPT ![h[elem].Prev].Next = h[elem].Next]
                   IN IF h1[elem].Next = NULL THEN Panic(h1, l)
                      ELSE Ok([h1 EXCEPT ![h1[elem].Next].Prev = h1[elem].Prev], dec(l))

\* Remove(elem): unlink elem; cases on l.len, then on elem's position.
Remove(h, l, elem) ==
  LET dec(l1) == [l1 EXCEPT !.len = @ - 1]
  IN CASE l.len = 0 -> Ok(h, l)
       [] l.len = 1 -> Ok(h, dec([l EXCEPT !.front = NULL, !.back = NULL]))
       [] OTHER ->
            IF elem = l.front THEN
              IF elem = NULL THEN Panic(h, l)
              ELSE LET l1 == [l EXCEPT !.front = h[elem].Next]
                   IN IF l1.front = NULL THEN Panic(h, l1)
                      ELSE Ok([h EXCEPT ![l1.front].Prev = NULL], dec(l1))
            ELSE IF elem = l.back THEN
              IF elem = NULL THEN Panic(h, l)
              ELSE LET l1 == [l EXCEPT !.back = h[elem].Prev]
                   IN IF l1.back = NULL THEN Panic(h, l1)
                      ELSE Ok([h EXCEPT ![l1.back].Next = NULL], dec(l1))
            ELSE
              IF elem = NULL \/ h[elem].Prev = NULL THEN Panic(h, l)
              ELSE LET h1 == [h EXCEPT ![h[elem].Prev].Next = h[elem].Next]
                   IN IF h1[elem].Next = NULL THEN Panic(h1, l)
                      ELSE Ok([h1 EXCEPT ![h1[elem].Next].Prev = h1[elem].Prev], dec(l))

\* MoveToFront that removes elem and pushes a new item with elem's value.
MoveToFront_Copy(h, l, elem) ==
  LET r == Remove(h, l, elem)
      p == PushFront(r.h, r.l, h[elem].Value)
  IN IF r.panic THEN r ELSE [h |-> p.h, l |-> p.l, panic |-> p.panic]

\* MoveToFront(elem): l.Remove(elem); l.pushFrontLogic(elem)
MoveToFront(h, l, elem) ==
  LET r == Remove(h, l, elem)
  IN IF r.panic THEN r ELSE pushFrontLogic(r.h, r.l, elem)

(***************************************************************************)
(* Addresses.  A Go program cannot observe the address of a ListItem, only *)
(* whether two pointers are equal, and an item no pointer reaches is       *)
(* reclaimed.  After each call the live items are therefore renamed to a   *)
(* canonical form: the items reached from front through Next get the       *)
(* addresses 1, 2, ... in that order, then every other item still reached  *)
(* from the cache.                                                         *)
(***************************************************************************)

\* The addresses reached from the set S through Next and Prev.
RECURSIVE Reach(_, _)
Reach(h, S) ==
  LET T == (S \cup {h[a].Next : a \in S} \cup {h[a].Prev : a \in S}) \ {NULL}
  IN IF T = S THEN S ELSE Reach(h, T)

\* The addresses met from a through Next, in order, up to nil or a repeat.
RECURSIVE Walk(_, _, _)
Walk(h, a, seen) ==
  IF a = NULL \/ a \in Range(seen) THEN seen
  ELSE Walk(h, h[a].Next, Append(seen, a))

\* A finite set of addresses in increasing order.
RECURSIVE Sorted(_)
Sorted(S) ==
  IF S = {} THEN <<>>
  ELSE LET m == CHOOSE x \in S : \A y \in S : x <= y
       IN <<m>> \o Sorted(S \ {m})

\* The pointers the cache itself holds.
Roots(c) == ({c.queue.front, c.queue.back} \cup Range(c.items)) \ {NULL}

\* The cache and heap with the live items renamed canonically.
Normalize(c, h) ==
  LET live == Reach(h, Roots(c))
      inList == Walk(h, c.queue.front, <<>>)
      order == inList \o Sorted(live \ Range(inList))
      rn(a) == IF a = NULL THEN NULL ELSE CHOOSE i \in 1..Len(order) : order[i] = a
  IN [c |-> [c EXCEPT !.queue.front = rn(@), !.queue.back = rn(@),
                      !.items = [k \in DOMAIN @ |-> rn(@[k])]],
      h |-> [i \in 1..Len(order) |->
               [Value |-> h[order[i]].Value,
                Next |-> rn(h[order[i]].Next),
                Prev |-> rn(h[order[i]].Prev)]]]

(***************************************************************************)
(* cache.go                                                                *)
(***************************************************************************)

\* type cacheListItem struct { key; value }
cacheListItem(key, value) == [key |-> key, value |-> value]

\* make(map[K]*ListItem, capacity): the empty map
EmptyItems == [k \in {} |-> NULL]

\* c.items[key] = elem
MapPut(items, key, elem) ==
  [k \in DOMAIN items \cup {key} |-> IF k = key THEN elem ELSE items[k]]

\* delete(c.items, key)
MapDelete(items, key) == [k \in DOMAIN items \ {key} |-> items[k]]

\* NewCache rejecting only negative capacities.
NewCache_ZeroAllowed(capacity) ==
  IF capacity < 0 THEN Nil
  ELSE [capacity |-> capacity, queue |-> NewList, items |-> EmptyItems]

\* NewCache(capacity): nil if capacity < 1, else an empty cache.
NewCache(capacity) ==
  IF capacity < 1 THEN Nil
  ELSE [capacity |-> capacity, queue |-> NewList, items |-> EmptyItems]

\* The result of a cache call: the cache, the heap, the returned values
\* (ok: Set's bool or Get's bool; out: Get's value) and whether it panicked.
Result(c, h, ok, out, panic) == [c |-> c, h |-> h, ok |-> ok, out |-> out, panic |-> panic]

\* Evict with the capacity check left out: nothing is ever removed.
Evict_Never(c, h) == Result(c, h, FALSE, ZeroVal, FALSE)

\* Evict removing the item behind the front instead of the back one.
Evict_SecondFromFront(c, h) ==
  IF c.queue.len > c.capacity THEN
    LET victim == h[Front(c.queue)].Next
        items1 == MapDelete(c.items, h[victim].Value.key)
        r == Remove(h, c.queue, victim)
    IN Result([c EXCEPT !.items = items1, !.queue = r.l], r.h, FALSE, ZeroVal, r.panic)
  ELSE Result(c, h, FALSE, ZeroVal, FALSE)

\* Evict removing the back item from the list but not its key from the map.
Evict_KeepsMapEntry(c, h) ==
  IF c.queue.len > c.capacity THEN
    LET r == Remove(h, c.queue, Back(c.queue))
    IN Result([c EXCEPT !.queue = r.l], r.h, FALSE, ZeroVal, r.panic)
  ELSE Result(c, h, FALSE, ZeroVal, FALSE)

\* Eviction that deletes the key of the front item from the map while it
\* removes the back item from the list.
Evict_DeletesFrontKey(c, h) ==
  IF c.queue.len > c.capacity THEN
    IF Back(c.queue) = NULL \/ Front(c.queue) = NULL THEN Result(c, h, FALSE, ZeroVal, TRUE)
    ELSE LET items1 == MapDelete(c.items, h[Front(c.queue)].Value.key)
             r == Remove(h, c.queue, Back(c.queue))
         IN Result([c EXCEPT !.items = items1, !.queue = r.l], r.h, FALSE, ZeroVal, r.panic)
  ELSE Result(c, h, FALSE, ZeroVal, FALSE)

\* Eviction that removes the two least recently used entries.
Evict_Twice(c, h) ==
  IF c.queue.len > c.capacity THEN
    IF Back(c.queue) = NULL THEN Result(c, h, FALSE, ZeroVal, TRUE)
    ELSE LET items1 == MapDelete(c.items, h[Back(c.queue)].Value.key)
             r == Remove(h, c.queue, Back(c.queue))
             b == Back(r.l)
         IN IF r.panic \/ b = NULL
            THEN Result([c EXCEPT !.items = items1, !.queue = r.l], r.h, FALSE, ZeroVal, r.panic)
            ELSE LET r2 == Remove(r.h, r.l, b)
                 IN Result([c EXCEPT !.items = MapDelete(items1, r.h[b].Value.key),
                                     !.queue = r2.l],
                           r2.h, FALSE, ZeroVal, r2.panic)
  ELSE Result(c, h, FALSE, ZeroVal, FALSE)

\* The eviction branch of Set, lines 58-61.
Evict(c, h) ==
  IF c.queue.len > c.capacity THEN
    IF Back(c.queue) = NULL THEN Result(c, h, FALSE, ZeroVal, TRUE)
    ELSE LET items1 == MapDelete(c.items, h[Back(c.queue)].Value.key)
             r == Remove(h, c.queue, Back(c.queue))
         IN Result([c EXCEPT !.items = items1, !.queue = r.l], r.h, FALSE, ZeroVal, r.panic)
  ELSE Result(c, h, FALSE, ZeroVal, FALSE)

\* Set moving a present key to the front without storing the new value.
SetBody_NoUpdate(c, h, key, value) ==
  IF key \in DOMAIN c.items THEN
    LET r == MoveToFront(h, c.queue, c.items[key])
    IN Result([c EXCEPT !.queue = r.l], r.h, TRUE, ZeroVal, r.panic)
  ELSE
    LET p == PushFront(h, c.queue, cacheListItem(key, value))
    IN Evict([c EXCEPT !.queue = p.l, !.items = MapPut(@, key, p.item)], p.h)

\* Set returning false from its update branch as well.
SetBody_UpdateReturnsFalse(c, h, key, value) ==
  IF key \in DOMAIN c.items THEN
    LET v == c.items[key]
        r == MoveToFront([h EXCEPT ![v].Value = cacheListItem(key, value)], c.queue, v)
    IN Result([c EXCEPT !.queue = r.l], r.h, FALSE, ZeroVal, r.panic)
  ELSE
    LET p == PushFront(h, c.queue, cacheListItem(key, value))
    IN Evict([c EXCEPT !.queue = p.l, !.items = MapPut(@, key, p.item)], p.h)

\* Set without the presence check: every call pushes a new item.
SetBody_NoPresenceCheck(c, h, key, value) ==
  LET p == PushFront(h, c.queue, cacheListItem(key, value))
  IN Evict([c EXCEPT !.queue = p.l, !.items = MapPut(@, key, p.item)], p.h)

\* The body of lruCache.Set between Lock and Unlock.
SetBody(c, h, key, value) ==
  LET listItem == cacheListItem(key, value)
  IN IF key \in DOMAIN c.items THEN
       LET v == c.items[key]
           r == MoveToFront([h EXCEPT ![v].Value = listItem], c.queue, v)
       IN Result([c EXCEPT !.queue = r.l], r.h, TRUE, ZeroVal, r.panic)
     ELSE
       LET p == PushFront(h, c.queue, listItem)
           c1 == [c EXCEPT !.queue = p.l, !.items = MapPut(@, key, p.item)]
       IN IF p.panic THEN Result(c1, p.h, FALSE, ZeroVal, TRUE)
          ELSE Evict(c1, p.h)

\* Get without the MoveToFront: a read that does not refresh the key.
GetBody_NoMove(c, h, key) ==
  IF key \in DOMAIN c.items
  THEN Result(c, h, TRUE, h[c.items[key]].Value.value, FALSE)
  ELSE Result(c, h, FALSE, ZeroVal, FALSE)

\* Get that stores the zero value under a key it does not find.
GetBody_MissInserts(c, h, key) ==
  IF key \in DOMAIN c.items THEN
    LET v == c.items[key]
        r == MoveToFront(h, c.queue, v)
    IN Result([c EXCEPT !.queue = r.l], r.h, TRUE,
              IF r.panic THEN ZeroVal ELSE r.h[v].Value.value, r.panic)
  ELSE LET p == PushFront(h, c.queue, cacheListItem(key, ZeroVal))
       IN Result([c EXCEPT !.queue = p.l, !.items = MapPut(@, key, p.item)],
                 p.h, FALSE, ZeroVal, p.panic)

\* The body of lruCache.Get between Lock and Unlock.
GetBody(c, h, key) ==
  IF key \in DOMAIN c.items THEN
    LET v == c.items[key]
        r == MoveToFront(h, c.queue, v)
    IN Result([c EXCEPT !.queue = r.l], r.h, TRUE,
              IF r.panic THEN ZeroVal ELSE r.h[v].Value.value, r.panic)
  ELSE Result(c, h, FALSE, ZeroVal, FALSE)

\* Clear replacing the list but keeping the map.
ClearBody_KeepsItems(c, h) ==
  Result([c EXCEPT !.queue = NewList], h, FALSE, ZeroVal, FALSE)

\* The body of lruCache.Clear between Lock and Unlock.
ClearBody(c, h) ==
  Result([c EXCEPT !.queue = NewList, !.items = EmptyItems], h, FALSE, ZeroVal, FALSE)

(***************************************************************************)
(* The reference LRU model: a plain sequence of (key, value) entries, the  *)
(* most recently used first.  It is history kept beside the program, never *)
(* read by it.                                                             *)
(***************************************************************************)
RefKeys(s) == {s[i].key : i \in DOMAIN s}
RefEntry(s, k) == s[CHOOSE i \in DOMAIN s : s[i].key = k]
RefWithout(s, k) == SelectSeq(s, LAMBDA e : e.key # k)

RefSet(s, cap, k, v) ==
  LET t == <<cacheListItem(k, v)>> \o RefWithout(s, k)
  IN IF Len(t) > cap THEN SubSeq(t, 1, cap) ELSE t

RefGet(s, k) ==
  IF k \in RefKeys(s) THEN <<RefEntry(s, k)>> \o RefWithout(s, k) ELSE s

\* The history of each key after Set(k, _) took the reference from s to t.
HistSet(hs, s, t, k) ==
  [x \in Keys |-> IF x = k THEN "live"
                  ELSE IF x \in RefKeys(s) \ RefKeys(t) THEN "evicted"
                  ELSE hs[x]]

\* The history of each key after Clear().
HistClear(hs) == [x \in Keys |-> IF hs[x] = "live" THEN "cleared" ELSE hs[x]]

(***************************************************************************)
(* The state machine: one client calling Set, Get and Clear, each call     *)
(* complete (Lock, body, deferred Unlock) in one step.                     *)
(***************************************************************************)
Call(op, key, value, r) ==
  [op |-> op, key |-> key, value |-> value, ok |-> r.ok, out |-> r.out, panic |-> r.panic]

\* No threads and no list client: the variables of the other state machines.
NoThreads == mu = FALSE /\ th = <<>> /\ seq = <<>>

\* No list call made yet: the list client has only called NewList.
NoListCall ==
  [op |-> "NewList", elem |-> NULL, v |-> "none", item |-> NULL,
   before |-> <<>>, links |-> <<NULL, NULL>>, panic |-> FALSE]
NoListClient == lst = NewList /\ lret = NoListCall /\ held = {}

Init ==
  /\ NoThreads /\ NoListClient
  /\ arg \in CapArgs
  /\ cache = NewCache(arg)
  /\ heap = <<>>
  /\ ret = [op |-> "NewCache", key |-> 0, value |-> ZeroVal, ok |-> FALSE,
            out |-> ZeroVal, panic |-> FALSE]
  /\ ref = <<>>
  /\ hist = [k \in Keys |-> "never"]
  /\ pre = [was |-> "none", size |-> 0]

\* A call can be made on a usable cache of a program that has not panicked.
Usable == cache # Nil /\ ~ret.panic /\ Cardinality(DOMAIN heap) < MaxNodes

Commit(op, key, value, r) ==
  LET n == Normalize(r.c, r.h)
  IN /\ cache' = n.c
     /\ heap' = n.h
     /\ ret' = Call(op, key, value, r)
     /\ arg' = arg
     /\ UNCHANGED <<mu, th, seq, lst, lret, held>>

Set(key, value) ==
  /\ Usable
  /\ Commit("Set", key, value, SetBody(cache, heap, key, value))
  /\ ref' = RefSet(ref, arg, key, value)
  /\ hist' = HistSet(hist, ref, ref', key)
  /\ pre' = [was |-> hist[key], size |-> Len(ref)]

Get(key) ==
  /\ Usable
  /\ Commit("Get", key, ZeroVal, GetBody(cache, heap, key))
  /\ ref' = RefGet(ref, key)
  /\ hist' = hist
  /\ pre' = [was |-> hist[key], size |-> Len(ref)]

Clear ==
  /\ Usable
  /\ Commit("Clear", 0, ZeroVal, ClearBody(cache, heap))
  /\ ref' = <<>>
  /\ hist' = HistClear(hist)
  /\ pre' = [was |-> "none", size |-> Len(ref)]

Next ==
  \/ \E key \in Keys : \E value \in ValuesOf(key) : Set(key, value)
  \/ \E key \in Keys : Get(key)
  \/ Clear

Spec == Init /\ [][Next]_vars

(***************************************************************************)
(* What can be observed of the cache.                                      *)
(***************************************************************************)

\* The entries read from the list, front to back through Next.
Entries(c, h) ==
  LET w == Walk(h, c.queue.front, <<>>) IN [i \in 1..Len(w) |-> h[w[i]].Value]

\* What a Get(k) made now would return.
Found(c, h, k) == GetBody(c, h, k).ok /\ ~GetBody(c, h, k).panic
Stored(c, h, k) == GetBody(c, h, k).out

\* The keys a Get finds.
FoundKeys(c, h) == {k \in Keys : Found(c, h, k)}

\* The number of stored entries: in the map, and in the list.
Size(c) == Cardinality(DOMAIN c.items)

(***************************************************************************)
(* Properties of the cache.                                                *)
(***************************************************************************)

\* C1: after every completed call on a cache built by NewCache(capacity),
\* capacity >= 1, the number of stored entries (in the map, in the list
\* header, along the list, and as found by Get) is at most capacity.
C1_SizeAtMostCapacity ==
  cache # Nil =>
    /\ cache.capacity = arg
    /\ Size(cache) <= cache.capacity
    /\ Len_(cache.queue) <= cache.capacity
    /\ Len(Entries(cache, heap)) <= cache.capacity
    /\ Cardinality(FoundKeys(cache, heap)) <= cache.capacity

\* A Set of an absent key on a full cache has completed and the cache is full.
C1_Witness ==
  /\ cache # Nil /\ ret.op = "Set" /\ ~ret.ok
  /\ pre.size = arg /\ Size(cache) = arg /\ Len_(cache.queue) = arg

\* C2: a Set(k, v) of an absent key on a cache holding capacity entries
\* removes exactly one entry, the least recently used one (the last of the
\* reference sequence); every other entry stays with its value, and k is
\* present afterwards with v.
C2_EvictsLeastRecentlyUsed ==
  [][ (/\ cache # Nil /\ ret'.op = "Set"
       /\ ~Found(cache, heap, ret'.key)
       /\ Size(cache) = cache.capacity)
      => LET k == ret'.key
             lru == ref[Len(ref)].key
             before == FoundKeys(cache, heap)
             after == FoundKeys(cache', heap')
         IN /\ lru \in before
            /\ before \ after = {lru}
            /\ after = (before \ {lru}) \cup {k}
            /\ \A x \in before \ {lru} : Stored(cache', heap', x) = Stored(cache, heap, x)
            /\ Stored(cache', heap', k) = ret'.value
            /\ Size(cache') = cache.capacity
    ]_vars

\* A Set of an absent key on a full cache of two or more entries has evicted.
C2_Witness ==
  /\ cache # Nil /\ ret.op = "Set" /\ ~ret.ok /\ pre.was # "live"
  /\ pre.size = arg /\ arg >= 2
  /\ \E x \in Keys : hist[x] = "evicted"

\* C3: after a Get(k) that found k, or a Set(k, _) on a present k, the next
\* call, if it is a Set of an absent key on the full cache, does not evict k
\* when the cache holds at least one other key.
C3_TouchedKeySurvivesNextEviction ==
  [][ (/\ cache # Nil /\ ret.op \in {"Get", "Set"} /\ ret.ok
       /\ ret'.op = "Set" /\ ~Found(cache, heap, ret'.key)
       /\ Size(cache) = cache.capacity /\ Size(cache) >= 2)
      => /\ Found(cache', heap', ret.key)
         /\ Stored(cache', heap', ret.key) = Stored(cache, heap, ret.key)
    ]_vars

\* A Get has found its key in a full cache of two or more entries: the state
\* from which the next Set of an absent key evicts.
C3_Witness ==
  /\ cache # Nil /\ ret.op = "Get" /\ ret.ok
  /\ Size(cache) = arg /\ arg >= 2
  /\ \E x \in Keys : hist[x] = "evicted"

\* The steps of the scenario with capacity 3, keys A..D written 1..4:
\* Set(A,1), Set(B,2), Set(C,3) give [C,B,A]; Get(A) returns (1, true) and
\* gives [A,C,B]; Set(D,4) evicts B and gives [D,A,C].
C4_ScenarioStep ==
  LET e(k) == cacheListItem(k, k)
      now == Entries(cache, heap)
      next == Entries(cache', heap')
      set(k) == ret'.op = "Set" /\ ret'.key = k /\ ret'.value = k
      get(k) == ret'.op = "Get" /\ ret'.key = k
  IN arg = 3 =>
       /\ (now = <<>> /\ set(1)) => next = <<e(1)>>
       /\ (now = <<e(1)>> /\ set(2)) => next = <<e(2), e(1)>>
       /\ (now = <<e(2), e(1)>> /\ set(3)) => next = <<e(3), e(2), e(1)>>
       /\ (now = <<e(3), e(2), e(1)>> /\ get(1))
            => next = <<e(1), e(3), e(2)>> /\ ret'.ok /\ ret'.out = 1
       /\ (now = <<e(1), e(3), e(2)>> /\ set(4))
            => next = <<e(4), e(1), e(3)>> /\ ~Found(cache', heap', 2)

\* C4: after every call the (key, value) entries read from the list front
\* to back are exactly those of the reference LRU sequence (most recent
\* successful Get or Set first), and every step of the capacity-3 scenario
\* gives the order the scenario states.
C4_ListIsReferenceSequence ==
  /\ [](cache # Nil => Entries(cache, heap) = ref)
  /\ [][C4_ScenarioStep]_vars

\* The end of the scenario: [D,A,C] after Set(D,4) evicted B.
C4_Witness ==
  /\ arg = 3 /\ ret.op = "Set" /\ ret.key = 4 /\ ~ret.ok /\ pre.size = 3
  /\ hist[2] = "evicted"
  /\ Entries(cache, heap) = <<cacheListItem(4, 4), cacheListItem(1, 1), cacheListItem(3, 3)>>

\* C5: a Get(k) of a key that was Set to v and has stayed in the cache since
\* (through Gets and Sets of other keys) returns (v, true).
C5_GetReturnsLastSetValue ==
  (cache # Nil /\ ret.op = "Get" /\ ret.key \in RefKeys(ref))
    => /\ ~ret.panic /\ ret.ok
       /\ ret.out = RefEntry(ref, ret.key).value
       /\ ret.out \in ValuesOf(ret.key)

\* A Get has returned a value that replaced an earlier one, while other keys
\* were set and one of them was evicted.
C5_Witness ==
  /\ cache # Nil /\ ret.op = "Get" /\ ret.ok /\ ret.out = ret.key + NumKeys
  /\ Len(ref) >= 2
  /\ \E x \in Keys : hist[x] = "evicted"

\* C6: a Get(k) of a key never inserted, or evicted and not inserted again
\* since, returns (zero value, false).
C6_GetOfAbsentKey ==
  (cache # Nil /\ ret.op = "Get" /\ hist[ret.key] \in {"never", "evicted"})
    => ~ret.panic /\ ~ret.ok /\ ret.out = ZeroVal

\* A Get of an evicted key has returned, with another key never inserted.
C6_Witness ==
  /\ cache # Nil /\ ret.op = "Get" /\ ~ret.ok /\ hist[ret.key] = "evicted"
  /\ \E x \in Keys : hist[x] = "never"

\* C7: Set(k, v) returns true exactly when k was present immediately before
\* the call: false for a key never inserted, evicted, or removed by Clear.
C7_SetReturnsWhetherPresent ==
  (cache # Nil /\ ret.op = "Set")
    => /\ ~ret.panic
       /\ pre.was \in {"never", "live", "evicted", "cleared"}
       /\ ret.ok <=> pre.was = "live"

\* A Set of a key removed by Clear has returned false.
C7_Witness ==
  cache # Nil /\ ret.op = "Set" /\ ~ret.ok /\ pre.was = "cleared"

\* C8: a Set(k, v2) of a present key returns true, a following Get(k)
\* returns v2, the number of entries is unchanged and every other key is
\* still found with its value.
C8_UpdateInPlace ==
  [][ (cache # Nil /\ ret'.op = "Set" /\ Found(cache, heap, ret'.key))
      => LET k == ret'.key
         IN /\ ret'.ok /\ ~ret'.panic
            /\ Found(cache', heap', k)
            /\ Stored(cache', heap', k) = ret'.value
            /\ Size(cache') = Size(cache)
            /\ Len_(cache'.queue) = Len_(cache.queue)
            /\ FoundKeys(cache', heap') = FoundKeys(cache, heap)
            /\ \A x \in FoundKeys(cache, heap) \ {k} :
                 Stored(cache', heap', x) = Stored(cache, heap, x)
    ]_vars

\* A Set of a present key has returned true in a full cache of several keys.
C8_Witness ==
  /\ cache # Nil /\ ret.op = "Set" /\ ret.ok /\ pre.was = "live"
  /\ ret.value = ret.key + NumKeys
  /\ Size(cache) = arg /\ arg >= 2

\* C9: after Clear() every key is absent, the size is 0 and the capacity is
\* the one given at construction: the state is that of a fresh cache.
C9_ClearGivesFreshCache ==
  (cache # Nil /\ ret.op = "Clear")
    => /\ ~ret.panic
       /\ FoundKeys(cache, heap) = {}
       /\ Size(cache) = 0 /\ Len_(cache.queue) = 0
       /\ Front(cache.queue) = NULL /\ Back(cache.queue) = NULL
       /\ cache.capacity = arg
       /\ cache = NewCache(arg) /\ heap = <<>>

\* A Clear of a full cache has completed.
C9_Witness ==
  cache # Nil /\ ret.op = "Clear" /\ pre.size = arg /\ arg >= 2

\* C10: NewCache(capacity) is nil for every capacity < 1 and an empty cache
\* of that capacity for every capacity >= 1; no call on a cache panics.
C10_OnlyInvalidCapacityFails ==
  /\ arg < 1 <=> cache = Nil
  /\ cache # Nil => cache.capacity = arg
  /\ (cache # Nil /\ ret.op = "NewCache")
       => /\ cache.items = EmptyItems /\ Len_(cache.queue) = 0
          /\ Front(cache.queue) = NULL /\ Back(cache.queue) = NULL
          /\ heap = <<>> /\ FoundKeys(cache, heap) = {}
  /\ ~ret.panic

\* NewCache(0) has returned nil.
C10_Witness ==
  arg = 0 /\ cache = Nil /\ ret.op = "NewCache"

(***************************************************************************)
(* Several threads sharing one cache.  A call is made of steps: the call   *)
(* itself, c.mu.Lock(), the body up to the eviction check, the eviction    *)
(* branch of Set, and the deferred c.mu.Unlock() with the return.          *)
(***************************************************************************)
NumThreads == 2         \* threads calling the cache
MaxConcCap == 1         \* largest capacity of the shared cache

Threads == 1..NumThreads
ConcCaps == 1..MaxConcCap
ConcKeys == 1..(MaxConcCap + 1)     \* one key more than fits

\* A thread outside any call.
IdleThread ==
  [pc |-> "idle", op |-> "none", key |-> 0, value |-> ZeroVal,
   ok |-> FALSE, out |-> ZeroVal, exp |-> <<>>]

\* Lock that only Set and Clear take: Get runs without the mutex.
Locks_NotGet(op) == op # "Get"

\* Whether the method takes c.mu: Set (line 44), Get (71), Clear (84).
Locks(op) == op \in {"Set", "Get", "Clear"}

\* A mutex whose Lock never waits.
MutexFree_Always(m) == TRUE

\* sync.Mutex.Lock returns only when the mutex is unlocked.
MutexFree(m) == m = FALSE

\* A return that leaves the mutex locked (no deferred Unlock).
Release_Forgotten(m, op) == m

\* defer c.mu.Unlock(): the mutex after the method returns.
Release(m, op) == IF Locks(op) THEN FALSE ELSE m

\* Set up to the eviction check, lines 42-55: update and move a present
\* key (ok = TRUE), or push a new item and put it in the map.
SetEnter(c, h, key, value) ==
  LET listItem == cacheListItem(key, value)
  IN IF key \in DOMAIN c.items THEN
       LET v == c.items[key]
           r == MoveToFront([h EXCEPT ![v].Value = listItem], c.queue, v)
       IN Result([c EXCEPT !.queue = r.l], r.h, TRUE, ZeroVal, r.panic)
     ELSE
       LET p == PushFront(h, c.queue, listItem)
       IN Result([c EXCEPT !.queue = p.l, !.items = MapPut(@, key, p.item)],
                 p.h, FALSE, ZeroVal, p.panic)

\* The body of a call up to Set's eviction check.
BodyStep(c, h, call) ==
  CASE call.op = "Set" -> SetEnter(c, h, call.key, call.value)
    [] call.op = "Get" -> GetBody(c, h, call.key)
    [] OTHER -> ClearBody(c, h)

\* The whole call, as one thread alone runs it.
WholeCall(c, h, call) ==
  CASE call.op = "Set" -> SetBody(c, h, call.key, call.value)
    [] call.op = "Get" -> GetBody(c, h, call.key)
    [] OTHER -> ClearBody(c, h)

\* Set returning after the push without the eviction check.
AfterBody_SkipEvict(op, hit) == "unlock"

\* Where a call stands after BodyStep: only a Set that pushed goes on to
\* the eviction check.
AfterBody(op, hit) == IF op = "Set" /\ ~hit THEN "evict" ELSE "unlock"

\* The threads between Lock and Unlock.
Inside == {t \in Threads : th[t].pc \in {"body", "evict", "unlock"}}

\* The program runs until a thread panics.
Running == \A t \in Threads : th[t].pc # "panicked"

InitConc ==
  /\ NoListClient
  /\ arg \in ConcCaps
  /\ cache = NewCache(arg)
  /\ heap = <<>>
  /\ ret = [op |-> "NewCache", key |-> 0, value |-> ZeroVal, ok |-> FALSE,
            out |-> ZeroVal, panic |-> FALSE]
  /\ ref = <<>>
  /\ hist = [k \in Keys |-> "never"]
  /\ pre = [was |-> "none", size |-> 0]
  /\ mu = FALSE
  /\ th = [t \in Threads |-> IdleThread]
  /\ seq = [c |-> cache, h |-> <<>>]

ConcFrame == UNCHANGED <<arg, ret, ref, hist, pre, lst, lret, held>>

\* Thread t calls op(key, value).
TCall(t, op, key, value) ==
  /\ Running /\ th[t].pc = "idle"
  /\ th' = [th EXCEPT ![t] = [IdleThread EXCEPT !.pc = "lock", !.op = op,
                                                !.key = key, !.value = value]]
  /\ UNCHANGED <<cache, heap, mu, seq>>
  /\ ConcFrame

\* c.mu.Lock() returns in thread t.  seq runs the whole call at this point.
TLock(t) ==
  /\ Running /\ th[t].pc = "lock"
  /\ Locks(th[t].op) => MutexFree(mu)
  /\ mu' = IF Locks(th[t].op) THEN TRUE ELSE mu
  /\ \E r \in {WholeCall(seq.c, seq.h, th[t])} :
       /\ seq' = Normalize(r.c, r.h)
       /\ th' = [th EXCEPT ![t].pc = "body", ![t].exp = [ok |-> r.ok, out |-> r.out]]
  /\ UNCHANGED <<cache, heap>>
  /\ ConcFrame

\* Thread t runs the body up to the eviction check.
TBody(t) ==
  /\ Running /\ th[t].pc = "body"
  /\ Cardinality(DOMAIN heap) < MaxNodes
  /\ \E r \in {BodyStep(cache, heap, th[t])} :
     \E n \in {Normalize(r.c, r.h)} :
       /\ cache' = n.c
       /\ heap' = n.h
       /\ th' = [th EXCEPT ![t].ok = r.ok, ![t].out = r.out,
                           ![t].pc = IF r.panic THEN "panicked"
                                     ELSE AfterBody(th[t].op, r.ok)]
  /\ UNCHANGED <<mu, seq>>
  /\ ConcFrame

\* Thread t runs the eviction branch of Set.
TEvict(t) ==
  /\ Running /\ th[t].pc = "evict"
  /\ \E r \in {Evict(cache, heap)} :
     \E n \in {Normalize(r.c, r.h)} :
       /\ cache' = n.c
       /\ heap' = n.h
       /\ th' = [th EXCEPT ![t].pc = IF r.panic THEN "panicked" ELSE "unlock"]
  /\ UNCHANGED <<mu, seq>>
  /\ ConcFrame

\* The deferred c.mu.Unlock() runs and the call returns (ok, out).
TUnlock(t) ==
  /\ Running /\ th[t].pc = "unlock"
  /\ mu' = Release(mu, th[t].op)
  /\ th' = [th EXCEPT ![t] = IdleThread]
  /\ UNCHANGED <<cache, heap, seq>>
  /\ ConcFrame

NextConc ==
  \E t \in Threads :
    \/ \E key \in ConcKeys : \E value \in ValuesOf(key) : TCall(t, "Set", key, value)
    \/ \E key \in ConcKeys : TCall(t, "Get", key, ZeroVal)
    \/ TCall(t, "Clear", 0, ZeroVal)
    \/ TLock(t)
    \/ TBody(t)
    \/ TEvict(t)
    \/ TUnlock(t)

SpecConc == InitConc /\ [][NextConc]_vars

\* Every thread keeps running, and a thread waiting in Lock gets the mutex
\* if it is unlocked again and again (sync.Mutex hands over to a starving
\* waiter).
FairSpecConc ==
  /\ SpecConc
  /\ \A t \in Threads :
       /\ WF_vars(TBody(t)) /\ WF_vars(TEvict(t)) /\ WF_vars(TUnlock(t))
       /\ SF_vars(TLock(t))

(***************************************************************************)
(* Properties of the cache under several threads.                          *)
(***************************************************************************)

\* C11: at most one thread at a time is between acquiring and releasing
\* the cache's lock, and the mutex is locked exactly while a thread is.
C11_MutualExclusion ==
  /\ Cardinality(Inside) <= 1
  /\ mu <=> Inside # {}
  /\ \A t \in Threads : th[t].pc \in {"idle", "lock", "body", "evict", "unlock"}

\* One thread is inside Set, before its eviction, while another waits in Lock.
C11_Witness ==
  \E t, u \in Threads :
    /\ t # u /\ mu
    /\ th[t].pc = "evict"
    /\ th[u].pc = "lock"

\* C12: whenever no thread holds the lock the cache is consistent: its size
\* is at most capacity and the keys of the map are exactly the keys stored
\* in the list's items, one item per key.
C12_ConsistentWhenUnlocked ==
  ~mu =>
    /\ Size(cache) <= cache.capacity
    /\ Len_(cache.queue) <= cache.capacity
    /\ DOMAIN cache.items = RefKeys(Entries(cache, heap))
    /\ Len(Entries(cache, heap)) = Size(cache)
    /\ Len_(cache.queue) = Size(cache)

\* The lock is free, the cache is full after an eviction, and two threads
\* are about to compete for the lock.
C12_Witness ==
  /\ ~mu /\ Size(cache) = cache.capacity
  /\ \E k \in ConcKeys : k \notin DOMAIN cache.items
  /\ \E t, u \in Threads : t # u /\ th[t].pc = "lock" /\ th[u].pc = "lock"

\* C13: the calls are linearizable in lock order: every call returns what
\* it returns when the calls run one after the other in the order of their
\* Lock, and whenever the lock is free the cache is the cache of that run.
C13_LinearizableInLockOrder ==
  /\ \A t \in Threads :
       th[t].pc = "unlock" => th[t].exp = [ok |-> th[t].ok, out |-> th[t].out]
  /\ ~mu => (seq.c = cache /\ seq.h = heap)

\* A Get that found its key is about to return while another thread, whose
\* call came first, still waits for the lock.
C13_Witness ==
  \E t, u \in Threads :
    /\ t # u
    /\ th[t].pc = "unlock" /\ th[t].op = "Get" /\ th[t].ok
    /\ th[t].out = th[t].key + NumKeys
    /\ th[u].pc = "lock" /\ th[u].op = "Set"

\* C14: every call a thread has started eventually returns, and the mutex
\* is unlocked whenever no call is in progress.
C14_EveryCallReturns ==
  /\ \A t \in Threads : (th[t].pc # "idle") ~> (th[t].pc = "idle")
  /\ [](Inside = {} => ~mu)

\* A thread waits in Lock while another is inside an evicting Set.
C14_Witness ==
  \E t, u \in Threads :
    /\ t # u /\ mu
    /\ th[t].pc = "lock"
    /\ th[u].pc = "unlock" /\ th[u].op = "Set" /\ ~th[u].ok
    /\ Size(cache) = cache.capacity

(***************************************************************************)
(* The map and the list of the cache.                                      *)
(***************************************************************************)

\* C15: after every completed Set, Get or Clear the map and the list are in
\* one-to-one correspondence: as many keys as items in the list, every key
\* points to an item that is in the list and stores that key, and no two
\* keys point to the same item.
C15_MapAndListCorrespond ==
  cache # Nil =>
    LET w == Walk(heap, cache.queue.front, <<>>)
    IN /\ ~ret.panic
       /\ Size(cache) = Len(w)
       /\ Len_(cache.queue) = Len(w)
       /\ \A k \in DOMAIN cache.items :
            /\ cache.items[k] \in Range(w)
            /\ heap[cache.items[k]].Value.key = k
       /\ \A j, k \in DOMAIN cache.items : cache.items[j] = cache.items[k] => j = k

\* A Set on a full cache of the largest capacity has pushed a new key and
\* evicted another.
C15_Witness ==
  /\ ret.op = "Set" /\ ~ret.ok
  /\ arg = MaxCap /\ pre.size = MaxCap
  /\ Size(cache) = MaxCap
  /\ \E k \in Keys : hist[k] = "evicted"

\* C16: in every state, the states inside a Set between its push and its
\* eviction included, the list has at most capacity + 1 items (and only a
\* Set standing before its eviction check sees capacity + 1), and a Set
\* removes at most one entry: its body removes none and its eviction branch
\* at most one.
C16_AtMostOneOverCapacity ==
  /\ [](/\ Len_(cache.queue) <= cache.capacity + 1
        /\ Len(Entries(cache, heap)) <= cache.capacity + 1
        /\ Size(cache) <= cache.capacity + 1
        /\ Len_(cache.queue) = cache.capacity + 1
             => \E t \in Threads : th[t].pc = "evict")
  /\ [][\A t \in Threads :
          /\ (th[t].op = "Set" /\ th[t].pc = "body" /\ th'[t].pc # "body")
               => /\ Len_(cache'.queue) >= Len_(cache.queue)
                  /\ DOMAIN cache.items \subseteq DOMAIN cache'.items
          /\ (th[t].pc = "evict" /\ th'[t].pc # "evict")
               => /\ Len_(cache'.queue) >= Len_(cache.queue) - 1
                  /\ Cardinality(DOMAIN cache.items \ DOMAIN cache'.items) <= 1
                  /\ Len(Entries(cache', heap')) >= Len(Entries(cache, heap)) - 1]_vars

\* A Set has pushed its item onto a full list and stands before its
\* eviction check.
C16_Witness ==
  \E t \in Threads :
    /\ th[t].pc = "evict" /\ th[t].op = "Set"
    /\ Len_(cache.queue) = cache.capacity + 1
    /\ Size(cache) = cache.capacity + 1

(***************************************************************************)
(* The list used on its own.  A client holds a list made by NewList and    *)
(* calls PushFront, PushBack, Remove and MoveToFront, the last two on      *)
(* items that are in the list.  Addresses are kept as the allocator gives  *)
(* them, so that an item can be followed through a call; an item no longer *)
(* reached from the list is reclaimed.                                     *)
(***************************************************************************)
MaxListLen == 4         \* longest list the client builds

ListVals == {"a", "b"}  \* the values the client pushes

\* The addresses met from a through Prev, in order, up to nil or a repeat.
RECURSIVE WalkBack(_, _, _)
WalkBack(h, a, seen) ==
  IF a = NULL \/ a \in Range(seen) THEN seen
  ELSE WalkBack(h, h[a].Prev, Append(seen, a))

\* The items of the list, front to back.
Members(h, l) == Walk(h, Front(l), <<>>)

\* The heap without the items that the list no longer reaches.
Collect(h, l) ==
  LET live == Reach(h, {Front(l), Back(l)} \ {NULL})
  IN [a \in live |-> h[a]]

InitList ==
  /\ NoThreads
  /\ arg = 0
  /\ cache = NewCache(arg)
  /\ heap = <<>>
  /\ ret = [op |-> "NewCache", key |-> 0, value |-> ZeroVal, ok |-> FALSE,
            out |-> ZeroVal, panic |-> FALSE]
  /\ ref = <<>>
  /\ hist = [k \in Keys |-> "never"]
  /\ pre = [was |-> "none", size |-> 0]
  /\ lst = NewList
  /\ lret = NoListCall
  /\ held = {}

\* The Next and Prev an item carries (of nil: none).
LinksOf(h, n) == IF n = NULL THEN <<NULL, NULL>> ELSE <<h[n].Next, h[n].Prev>>

ListFrame == UNCHANGED <<arg, cache, ret, ref, hist, pre, mu, th, seq>>

\* The list call op has run with result r.
ListCommit(op, elem, v, item, r) ==
  /\ lst' = r.l
  /\ heap' = Collect(r.h, r.l)
  /\ lret' = [op |-> op, elem |-> elem, v |-> v, item |-> item,
              before |-> Members(heap, lst), links |-> LinksOf(heap, elem),
              panic |-> r.panic]
  /\ held' = held
  /\ ListFrame

\* A list call can be made by a program that has not panicked.
ListUsable == ~lret.panic /\ Cardinality(DOMAIN heap) < MaxNodes

LPushFront(v) ==
  /\ ListUsable /\ Len_(lst) < MaxListLen
  /\ \E r \in {PushFront(heap, lst, v)} : ListCommit("PushFront", NULL, v, r.item, r)

LPushBack(v) ==
  /\ ListUsable /\ Len_(lst) < MaxListLen
  /\ \E r \in {PushBack(heap, lst, v)} : ListCommit("PushBack", NULL, v, r.item, r)

LRemove(n) ==
  /\ ListUsable /\ n \in Range(Members(heap, lst))
  /\ \E r \in {Remove(heap, lst, n)} : ListCommit("Remove", n, heap[n].Value, NULL, r)

LMoveToFront(n) ==
  /\ ListUsable /\ n \in Range(Members(heap, lst))
  /\ \E r \in {MoveToFront(heap, lst, n)} :
       ListCommit("MoveToFront", n, heap[n].Value, NULL, r)

\* for range l.Len() { l.MoveToFront(l.Back()) }
RECURSIVE Cycle(_, _, _)
Cycle(h, l, n) ==
  IF n = 0 THEN Ok(h, l)
  ELSE LET r == MoveToFront(h, l, Back(l))
       IN IF r.panic THEN r ELSE Cycle(r.h, r.l, n - 1)

\* The client moves the back item to the front as many times as the list
\* has items.
LCyclicMoveToFront ==
  /\ ListUsable /\ Len_(lst) >= 1
  /\ \E r \in {Cycle(heap, lst, Len_(lst))} :
       ListCommit("CyclicMoveToFront", Back(lst), heap[Back(lst)].Value, NULL, r)

NextList ==
  \/ \E v \in ListVals : LPushFront(v)
  \/ \E v \in ListVals : LPushBack(v)
  \/ \E n \in Addr : LRemove(n)
  \/ \E n \in Addr : LMoveToFront(n)
  \/ LCyclicMoveToFront

SpecList == InitList /\ [][NextList]_vars

\* for range l.Len() { l.Remove(l.Back()) }
RECURSIVE Drain(_, _, _)
Drain(h, l, n) ==
  IF n = 0 THEN Ok(h, l)
  ELSE LET r == Remove(h, l, Back(l))
       IN IF r.panic THEN r ELSE Drain(r.h, r.l, n - 1)

(***************************************************************************)
(* Properties of the list.                                                 *)
(***************************************************************************)

\* The sequence s without the address n.
Without(s, n) == SelectSeq(s, LAMBDA a : a # n)

\* The list (h, l) is well formed.
WellFormed(h, l) ==
  LET fw == Walk(h, Front(l), <<>>)
      bw == WalkBack(h, Back(l), <<>>)
  IN /\ (Len_(l) = 0) <=> (Front(l) = NULL)
     /\ (Len_(l) = 0) <=> (Back(l) = NULL)
     /\ Len_(l) = 1 => Front(l) = Back(l)
     /\ Front(l) # NULL => h[Front(l)].Prev = NULL
     /\ Back(l) # NULL => h[Back(l)].Next = NULL
     /\ \A n \in Range(fw) : h[n].Next # NULL => h[h[n].Next].Prev = n
     /\ Len(fw) = Len_(l)
     /\ Len(bw) = Len_(l)
     /\ \A i \in 1..Len(fw) : bw[Len(fw) + 1 - i] = fw[i]

\* C17: after any sequence of PushFront, PushBack, Remove and MoveToFront on
\* items of the list, the list is well formed: front.Prev and back.Next are
\* nil, n.Next.Prev is n for every item with a successor, Len() is the
\* number of items reached from Front() through Next and from Back()
\* through Prev, Len() is 0 exactly when Front() and Back() are nil, and
\* Len() = 1 implies Front() = Back().
C17_ListWellFormed ==
  ~lret.panic /\ WellFormed(heap, lst)

\* The back item of a list of three has been moved to the front.
C17_Witness ==
  /\ lret.op = "MoveToFront" /\ Len(lret.before) = 3
  /\ lret.elem = lret.before[3]
  /\ Len_(lst) = 3

\* C18: PushFront(v) returns a new item holding v that becomes Front() with
\* no previous neighbour, PushBack(v) a new item holding v that becomes
\* Back() with no next neighbour; Len() grows by one and the items already
\* in the list keep their order (and their values).
C18_PushAddsAtEnd ==
  [][LET old == Members(heap, lst)
         new == Members(heap', lst')
         n == lret'.item
     IN lret'.op \in {"PushFront", "PushBack"} =>
          /\ ~lret'.panic
          /\ n # NULL /\ n \notin DOMAIN heap
          /\ heap'[n].Value = lret'.v
          /\ Len_(lst') = Len_(lst) + 1
          /\ \A a \in Range(old) : heap'[a].Value = heap[a].Value
          /\ lret'.op = "PushFront" =>
               /\ Front(lst') = n /\ heap'[n].Prev = NULL
               /\ new = <<n>> \o old
          /\ lret'.op = "PushBack" =>
               /\ Back(lst') = n /\ heap'[n].Next = NULL
               /\ new = Append(old, n)]_vars

\* An item has been pushed in front of a list of two.
C18_Witness ==
  /\ lret.op = "PushFront" /\ Len(lret.before) = 2
  /\ Front(lst) = lret.item /\ Len_(lst) = 3
  /\ heap[lret.item].Value = lret.v

\* C19: Remove(n) on an item of the list (the only item, the front, the
\* back or an interior item) lowers Len() by one, leaves n unreachable from
\* Front() and from Back(), and keeps the other items in their order;
\* removing Back() Len() times leaves the list empty.
C19_RemoveUnlinks ==
  /\ [][LET old == Members(heap, lst)
            new == Members(heap', lst')
            n == lret'.elem
        IN lret'.op = "Remove" =>
             /\ ~lret'.panic
             /\ Len_(lst') = Len_(lst) - 1
             /\ n \notin DOMAIN heap'
             /\ n \notin Range(new)
             /\ n \notin Range(WalkBack(heap', Back(lst'), <<>>))
             /\ new = Without(old, n)
             /\ \A a \in Range(new) : heap'[a].Value = heap[a].Value]_vars
  /\ [](LET d == Drain(heap, lst, Len_(lst))
        IN ~d.panic /\ d.l = NewList)

\* The interior item of a list of three has been removed.
C19_Witness ==
  /\ lret.op = "Remove" /\ Len(lret.before) = 3
  /\ lret.elem = lret.before[2]
  /\ Members(heap, lst) = <<lret.before[1], lret.before[3]>>

\* C20: MoveToFront(n) on an item of the list makes that same item (same
\* reference, same stored value) the front, leaves Len() unchanged and keeps
\* the other items in their order, whether n was the only item, the front,
\* the back or an interior item; MoveToFront(Front()) leaves the order
\* unchanged.
C20_MoveToFrontKeepsNode ==
  [][LET old == Members(heap, lst)
         new == Members(heap', lst')
         n == lret'.elem
     IN lret'.op = "MoveToFront" =>
          /\ ~lret'.panic
          /\ Front(lst') = n
          /\ DOMAIN heap' = DOMAIN heap
          /\ \A a \in DOMAIN heap : heap'[a].Value = heap[a].Value
          /\ Len_(lst') = Len_(lst)
          /\ new = <<n>> \o Without(old, n)
          /\ n = Front(lst) => new = old]_vars

\* The interior item of a list of three has been moved to the front.
C20_Witness ==
  /\ lret.op = "MoveToFront" /\ Len(lret.before) = 3
  /\ lret.elem = lret.before[2]
  /\ Members(heap, lst) = <<lret.before[2], lret.before[1], lret.before[3]>>

(***************************************************************************)
(* What a call leaves alone.                                               *)
(***************************************************************************)

\* C25: a Get(k) that does not find k leaves the cache unchanged: the keys,
\* their values and the recency order (the map, the list and its items) are
\* the same before and after the call.
C25_GetMissChangesNothing ==
  [][(ret'.op = "Get" /\ ~ret'.ok) =>
       /\ ~ret'.panic
       /\ cache' = cache /\ heap' = heap
       /\ Entries(cache', heap') = Entries(cache, heap)
       /\ FoundKeys(cache', heap') = FoundKeys(cache, heap)
       /\ \A k \in FoundKeys(cache, heap) : Stored(cache', heap', k) = Stored(cache, heap, k)]_vars

\* A Get of a key never inserted has returned on a full cache of the
\* largest capacity.
C25_Witness ==
  /\ cache # Nil /\ ret.op = "Get" /\ ~ret.ok /\ ~ret.panic
  /\ hist[ret.key] = "never"
  /\ arg = MaxCap /\ Size(cache) = MaxCap

\* C23: on a list of n >= 1 items, MoveToFront(Back()) applied n times
\* restores the front-to-back order the items had, with Len() unchanged.
C23_CyclicMoveToFrontRestores ==
  [][lret'.op = "CyclicMoveToFront" =>
       /\ ~lret'.panic
       /\ Members(heap', lst') = Members(heap, lst)
       /\ Len_(lst') = Len_(lst)
       /\ \A a \in Range(Members(heap, lst)) : heap'[a].Value = heap[a].Value]_vars

\* The back item of a list of three has been moved to the front three times.
C23_Witness ==
  /\ lret.op = "CyclicMoveToFront" /\ ~lret.panic
  /\ Len(lret.before) = 3 /\ Len_(lst) = 3
  /\ lret.elem = lret.before[3]

(***************************************************************************)
(* The list used without its precondition.  ListItem and its fields are    *)
(* exported, so a client can make an item of its own and can keep an item  *)
(* it has removed; here it hands Remove and MoveToFront any item it holds, *)
(* or nil, whether the item is in the list or not.  Outside the list the   *)
(* client keeps what one variable holds (elem of the tests): held has at   *)
(* most one item.                                                          *)
(***************************************************************************)
MaxFreeLen == 2         \* longest list this client pushes

FreeVals == {"a"}       \* the value this client stores

\* The heap without the items that neither the list nor the client reaches.
CollectHeld(h, l, hd) ==
  LET live == Reach(h, ({Front(l), Back(l)} \cup hd) \ {NULL})
  IN [a \in live |-> h[a]]

InitFree == InitList

\* The list call op has run with result r; the client now holds hd.
FreeCommit(op, elem, v, item, r, hd) ==
  /\ \A x, y \in hd : x = y
  /\ lst' = r.l
  /\ held' = hd
  /\ heap' = CollectHeld(r.h, r.l, hd)
  /\ lret' = [op |-> op, elem |-> elem, v |-> v, item |-> item,
              before |-> Members(heap, lst), links |-> LinksOf(heap, elem),
              panic |-> r.panic]
  /\ ListFrame

\* What Remove and MoveToFront can be handed: nil or any item still alive.
FreeArgs == {NULL} \cup DOMAIN heap

\* The items outside the list (h, l) the client holds after a call on n,
\* keeping its reference to n or not.
HeldAfter(h, l, n, keep) ==
  ((IF keep THEN held \cup {n} ELSE held \ {n}) \ {NULL}) \ Range(Members(h, l))

\* The last call handed Remove or MoveToFront an item that was not in the
\* non-empty list.
Misused ==
  /\ lret.op \in {"Remove", "MoveToFront"}
  /\ lret.before # <<>>
  /\ lret.elem \notin Range(lret.before)

\* The client goes on until a call panics or breaks the precondition of
\* Remove: what the list does after that is not followed.
FreeUsable == ListUsable /\ ~Misused

\* elem := &ListItem{Value: v}
FNewItem(v) ==
  /\ FreeUsable
  /\ \E a \in {NewAddr(heap)} :
       FreeCommit("NewItem", NULL, v, a, Ok(Alloc(heap, v), lst), held \cup {a})

FPushFront(v) ==
  /\ FreeUsable /\ Len_(lst) < MaxFreeLen
  /\ \E r \in {PushFront(heap, lst, v)} : FreeCommit("PushFront", NULL, v, r.item, r, held)

FPushBack(v) ==
  /\ FreeUsable /\ Len_(lst) < MaxFreeLen
  /\ \E r \in {PushBack(heap, lst, v)} : FreeCommit("PushBack", NULL, v, r.item, r, held)

FRemove(n, keep) ==
  /\ FreeUsable /\ n \in FreeArgs
  /\ \E r \in {Remove(heap, lst, n)} :
       FreeCommit("Remove", n, IF n = NULL THEN "none" ELSE heap[n].Value, NULL, r,
                  HeldAfter(r.h, r.l, n, keep))

FMoveToFront(n, keep) ==
  /\ FreeUsable /\ n \in FreeArgs
  /\ \E r \in {MoveToFront(heap, lst, n)} :
       FreeCommit("MoveToFront", n, IF n = NULL THEN "none" ELSE heap[n].Value, NULL, r,
                  HeldAfter(r.h, r.l, n, keep))

NextFree ==
  \/ \E v \in FreeVals : FNewItem(v)
  \/ \E v \in FreeVals : FPushFront(v)
  \/ \E v \in FreeVals : FPushBack(v)
  \/ \E n \in {NULL} \cup Addr : \E keep \in BOOLEAN : FRemove(n, keep)
  \/ \E n \in {NULL} \cup Addr : \E keep \in BOOLEAN : FMoveToFront(n, keep)

SpecFree == InitFree /\ [][NextFree]_vars

(***************************************************************************)
(* Properties of the list on an empty list or a foreign item.              *)
(***************************************************************************)

\* C21: Remove on an empty list is a no-op whatever its argument (nil, an
\* item the client made, an item removed earlier): Len() stays 0, Front()
\* and Back() stay nil, no item changes and nothing panics.
C21_RemoveOnEmptyIsNoOp ==
  [][(lret'.op = "Remove" /\ Len_(lst) = 0) =>
       /\ ~lret'.panic
       /\ Len_(lst') = 0 /\ Front(lst') = NULL /\ Back(lst') = NULL
       /\ lst' = lst
       /\ \A a \in DOMAIN heap' : heap'[a] = heap[a]]_vars

\* Remove(nil) has returned on an empty list while the client holds an item.
C21_Witness ==
  /\ lret.op = "Remove" /\ lret.elem = NULL /\ ~lret.panic
  /\ lret.before = <<>> /\ Len_(lst) = 0
  /\ held # {}

\* C22: MoveToFront(n) on an empty list behaves like PushFront of n:
\* afterwards Len() is 1, Front() and Back() are n, and n.Prev and n.Next
\* are nil, whatever links n carried before the call; n keeps its value.
C22_MoveToFrontOnEmptyInserts ==
  [][(lret'.op = "MoveToFront" /\ Len_(lst) = 0 /\ lret'.elem # NULL) =>
       LET n == lret'.elem
       IN /\ ~lret'.panic
          /\ Len_(lst') = 1
          /\ Front(lst') = n /\ Back(lst') = n
          /\ heap'[n].Prev = NULL /\ heap'[n].Next = NULL
          /\ heap'[n].Value = heap[n].Value
          /\ Members(heap', lst') = <<n>>
          /\ lst' = pushFrontLogic(heap, lst, n).l]_vars

\* An item removed from a longer list, still carrying a Next link, has been
\* moved to the front of the empty list.
C22_Witness ==
  /\ lret.op = "MoveToFront" /\ lret.elem # NULL /\ ~lret.panic
  /\ lret.before = <<>> /\ lret.links[1] # NULL
  /\ Len_(lst) = 1 /\ Front(lst) = lret.elem

\* C24 as claimed: Remove on a non-empty list with an item that is not in
\* the list (nil, an item the client made, an item removed earlier) panics
\* and leaves the list's length, front, back and links as they were.
C24_RemoveOfNonMemberPanics ==
  [][(/\ lret'.op = "Remove"
      /\ Len_(lst) > 0
      /\ lret'.elem \notin Range(Members(heap, lst))) =>
       /\ lret'.panic
       /\ lst' = lst
       /\ \A a \in DOMAIN heap \cap DOMAIN heap' : heap'[a] = heap[a]]_vars

====
